---- MODULE Spec2Model ----
(***************************************************************************)
(* Model of KeyboardControlService                                         *)
(* (src/src/angular-cesium/services/keyboard-control/                      *)
(*  keyboard-control.service.ts).                                          *)
(*                                                                         *)
(* The service keeps the installed definitions (_currentDefinitions), a    *)
(* table of per-key run states (_activeDefinitions, a JavaScript object    *)
(* whose own keys are kept in insertion order) and the key mapping         *)
(* function.  Every public method and every event handler is one action.   *)
(* User callbacks (validation, params, action, done) are opaque: what they *)
(* return, or that they throw, is an input of the action that calls them.  *)
(***************************************************************************)
EXTENDS Integers, Sequences, FiniteSets, TLC

VARIABLES
    currentDefinitions,  \* _currentDefinitions: name of the installed set, or "null"
    activeDefinitions,   \* _activeDefinitions: sequence of entries in own-key order
    keyMappingFn,        \* _keyMappingFn: "default" or "custom"
    listeners,           \* handlers attached to document / clock.onTick
    lastOp,              \* what the last method or handler call did (observation)
    history,             \* which of the history variables below is recorded
    armed,               \* history: key -> a key-down was accepted since the last install
    cancelHist,          \* history: key -> progress since the action last returned false
    owedDone             \* history: key -> accepted key-downs minus done invocations

vars == <<currentDefinitions, activeDefinitions, keyMappingFn, listeners, lastOp,
          history, armed, cancelHist, owedDone>>

-----------------------------------------------------------------------------
(* Bounds of the model *)

\* distinct keyboard events of one type and key code that are told apart
\* (events of key codes 65 and 97 are distinct events for the key "A" under the
\* custom mapping function whatever this bound is)
MaxStamp == 1
\* cap on |accepted key-downs - done invocations| of one key
MaxOwed == 1

-----------------------------------------------------------------------------
(* Values *)

\* enum KeyEventState
IGNORED == "IGNORED"
NOT_PRESSED == "NOT_PRESSED"
PRESSED == "PRESSED"

\* canonical keys: "A" and "B" are declared by some definitions, "a" by none
Keys == {"A", "B", "a"}
\* keyCode of the events delivered: 'A', 'B' and 'a'
KeyCodes == {65, 66, 97}

\* a KeyboardEvent: its type, its keyCode and an identity
NullEvent == [type |-> "null", keyCode |-> 0, stamp |-> 0]
KeyboardEvents(type) == [type : {type}, keyCode : KeyCodes, stamp : 1..MaxStamp]

\* String.fromCharCode(keyEvent.keyCode)
defaultKeyMappingFn(keyEvent) ==
    IF keyEvent.keyCode = 65 THEN "A" ELSE IF keyEvent.keyCode = 66 THEN "B" ELSE "a"

\* a caller-supplied keyMappingFn (an input of setKeyboardControls): it maps
\* the event to the upper-case character
customKeyMappingFn(keyEvent) == IF keyEvent.keyCode = 66 THEN "B" ELSE "A"

ApplyKeyMappingFn(fn, keyEvent) ==
    IF fn = "custom" THEN customKeyMappingFn(keyEvent) ELSE defaultKeyMappingFn(keyEvent)

\* PREDEFINED_KEYBOARD_ACTIONS: the ids that resolve to a built-in action
PREDEFINED_KEYBOARD_ACTIONS == {42}

(* KeyboardControlParams objects the caller declares, by identity.          *)
(* action: a KeyboardAction id (number) or a function; validation: declared *)
(* or not; params: none, a static object or a function; done: declared or   *)
(* not.                                                                     *)
KeyboardControlParams ==
    [a1 |-> [action |-> [isNumber |-> FALSE, id |-> 0], validation |-> TRUE,
             params |-> "static", done |-> TRUE],
     b1 |-> [action |-> [isNumber |-> FALSE, id |-> 0], validation |-> FALSE,
             params |-> "function", done |-> FALSE],
     b2 |-> [action |-> [isNumber |-> TRUE, id |-> 42], validation |-> FALSE,
             params |-> "none", done |-> TRUE],
     a2 |-> [action |-> [isNumber |-> FALSE, id |-> 0], validation |-> FALSE,
             params |-> "function", done |-> TRUE],
     b3 |-> [action |-> [isNumber |-> TRUE, id |-> 99], validation |-> TRUE,
             params |-> "none", done |-> FALSE]]

(* KeyboardControlDefinition objects given to setKeyboardControls: each a   *)
(* sequence of <<key, KeyboardControlParams>> in declared order.  D0 is the *)
(* object that declares no key.                                            *)
KeyboardControlDefinition ==
    [D0 |-> << >>,
     D1 |-> << <<"A", "a1">>, <<"B", "b1">> >>,
     D2 |-> << <<"B", "b2">>, <<"A", "a2">> >>,
     D3 |-> << <<"B", "b3">> >>]

DefinitionNames == {"D0", "D1", "D2", "D3"}

\* Object.keys(definitions)
ObjectKeys(definitions) ==
    [i \in 1..Len(KeyboardControlDefinition[definitions]) |->
        KeyboardControlDefinition[definitions][i][1]]

SeqRange(s) == {s[i] : i \in 1..Len(s)}

\* what callbacks may do
ParamsOutcomes == {"p1", "p2", "throw"}
ValidationOutcomes == {"true", "false", "throw"}
ActionOutcomes == {"false", "true", "undefined", "throw"}
DoneOutcomes == {"undefined", "throw"}

\* one invocation of a user callback or built-in
Call(fn, key, binding, event, params, result) ==
    [fn |-> fn, key |-> key, binding |-> binding, event |-> event,
     params |-> params, result |-> result]

-----------------------------------------------------------------------------
(* _activeDefinitions as a JavaScript object *)

HasEntry(active, key) == \E i \in 1..Len(active) : active[i].key = key

EntryOf(active, key) ==
    active[CHOOSE i \in 1..Len(active) : active[i].key = key]

\* this._activeDefinitions[key] = {state, action, keyboardEvent}
AssignEntry(active, key, state, action, keyboardEvent) ==
    LET entry == [key |-> key, state |-> state, action |-> action,
                  keyboardEvent |-> keyboardEvent]
    IN  IF HasEntry(active, key)
        THEN [i \in 1..Len(active) |-> IF active[i].key = key THEN entry ELSE active[i]]
        ELSE Append(active, entry)

StateOf(active, key) ==
    IF HasEntry(active, key) THEN EntryOf(active, key).state ELSE "none"

SnapshotOf(active, key) ==
    IF HasEntry(active, key) THEN EntryOf(active, key).action ELSE "null"

EventOf(active, key) ==
    IF HasEntry(active, key) THEN EntryOf(active, key).keyboardEvent ELSE NullEvent

-----------------------------------------------------------------------------
(* Private helpers of the service *)

\* (mutant) the lookup ignores the case of the character
getAction_IgnoresCase(definitions, char) ==
    LET declared == KeyboardControlDefinition[definitions]
        upper == IF char = "a" THEN "A" ELSE char
    IN  IF \E i \in 1..Len(declared) : declared[i][1] = upper
        THEN declared[CHOOSE i \in 1..Len(declared) : declared[i][1] = upper][2]
        ELSE "null"

\* getAction(char): this._currentDefinitions[char] || null
\* (called with _currentDefinitions not null; on null the property read throws)
getAction(definitions, char) ==
    LET declared == KeyboardControlDefinition[definitions]
    IN  IF \E i \in 1..Len(declared) : declared[i][1] = char
        THEN declared[CHOOSE i \in 1..Len(declared) : declared[i][1] = char][2]
        ELSE "null"

\* reading this._currentDefinitions[char] when _currentDefinitions is null
getActionThrows(definitions) == definitions = "null"

\* (mutant) a params function is not called: the definition itself is returned
getParams_NeverCalls(binding, key, keyboardEvent, outcome) ==
    LET paramsDef == KeyboardControlParams[binding].params
    IN  IF paramsDef = "none"
        THEN [calls |-> << >>, threw |-> FALSE, value |-> "{}"]
        ELSE [calls |-> << >>, threw |-> FALSE, value |-> "static"]

\* getParams(paramsDef, keyboardEvent), for the params of `binding`;
\* `outcome` is what the params function does if it is called
getParams(binding, key, keyboardEvent, outcome) ==
    LET paramsDef == KeyboardControlParams[binding].params
    IN  IF paramsDef = "none"
        THEN [calls |-> << >>, threw |-> FALSE, value |-> "{}"]
        ELSE IF paramsDef = "function"
        THEN [calls |-> << Call("params", key, binding, keyboardEvent, "-", outcome) >>,
              threw |-> outcome = "throw",
              value |-> outcome]
        ELSE [calls |-> << >>, threw |-> FALSE, value |-> "static"]

\* (mutant) any falsy return value cancels
shouldCancel_Falsy(shouldCancelEvent) == shouldCancelEvent \in {"false", "undefined"}

\* shouldCancelEvent === false
shouldCancel(shouldCancelEvent) == shouldCancelEvent = "false"

\* (mutant) every numeric id resolves to a built-in
predefinedAction_AnyId(id) == TRUE

\* `predefinedAction`: PREDEFINED_KEYBOARD_ACTIONS[execution.action] is truthy
predefinedAction(id) == id \in PREDEFINED_KEYBOARD_ACTIONS

\* executeAction(execution, key, keyboardEvent)
executeAction(definitions, active, execution, key, keyboardEvent, pOut, aOut) ==
    IF definitions = "null"
    THEN [active |-> active, calls |-> << >>, threw |-> FALSE]
    ELSE
      LET params == getParams(execution, key, keyboardEvent, pOut)
          action == KeyboardControlParams[execution].action
      IN  IF params.threw
          THEN [active |-> active, calls |-> params.calls, threw |-> TRUE]
          ELSE IF action.isNumber
          THEN IF predefinedAction(action.id)
               THEN [active |-> active,
                     calls |-> params.calls \o
                        << Call("builtin", key, execution, keyboardEvent, params.value, aOut) >>,
                     threw |-> aOut = "throw"]
               ELSE [active |-> active, calls |-> params.calls, threw |-> FALSE]
          ELSE [active |-> IF shouldCancel(aOut)
                           THEN AssignEntry(active, key, IGNORED, "null", NullEvent)
                           ELSE active,
                calls |-> params.calls \o
                        << Call("action", key, execution, keyboardEvent, params.value, aOut) >>,
                threw |-> aOut = "throw"]

\* the guard of handleTick's loop body
tickExecutes(actionState) ==
    actionState.action # "null" /\ actionState.state = PRESSED

\* activeKeys.forEach(key => ...) of handleTick, from position i on; a throw
\* leaves forEach at once
RECURSIVE forEachActiveKey(_, _, _, _, _, _, _)
forEachActiveKey(activeKeys, i, definitions, active, calls, pOut, aOut) ==
    IF i > Len(activeKeys)
    THEN [active |-> active, calls |-> calls, threw |-> FALSE]
    ELSE
      LET key == activeKeys[i]
          actionState == EntryOf(active, key)
      IN  IF tickExecutes(actionState)
          THEN LET r == executeAction(definitions, active, actionState.action, key,
                                      actionState.keyboardEvent, pOut[key], aOut[key])
               IN  IF r.threw
                   THEN [active |-> r.active, calls |-> calls \o r.calls, threw |-> TRUE]
                   ELSE forEachActiveKey(activeKeys, i + 1, definitions, r.active,
                                         calls \o r.calls, pOut, aOut)
          ELSE forEachActiveKey(activeKeys, i + 1, definitions, active, calls, pOut, aOut)

\* Object.keys(this._activeDefinitions)
activeKeysOf(active) == [i \in 1..Len(active) |-> active[i].key]

\* handleTick()
handleTickResult(definitions, active, pOut, aOut) ==
    forEachActiveKey(activeKeysOf(active), 1, definitions, active, << >>, pOut, aOut)

\* (mutant) the result of validation is not looked at
validationPasses_Always(validated, vOut) == TRUE

\* `execute` of handleKeydown: true unless a declared validation returns
\* something else than true
validationPasses(validated, vOut) == IF validated THEN vOut = "true" ELSE TRUE

\* (mutant) a key-down is considered only for a key that is not pressed
keydownConsidered_OnlyReleased(actionState) == actionState.state = NOT_PRESSED

\* (mutant) a key-down is considered whatever the state of the key
keydownConsidered_Always(actionState) == TRUE

\* the guard `actionState.state !== KeyEventState.IGNORED` of handleKeydown
keydownConsidered(actionState) == actionState.state # IGNORED

\* handleKeydown(e)
handleKeydownResult(definitions, active, mappingFn, e, pOut, vOut) ==
    LET char == ApplyKeyMappingFn(mappingFn, e)
        unchanged == [active |-> active, calls |-> << >>, threw |-> FALSE,
                      accepted |-> FALSE]
    IN  IF getActionThrows(definitions)
        THEN [active |-> active, calls |-> << >>, threw |-> TRUE, accepted |-> FALSE]
        ELSE
          LET action == getAction(definitions, char)
          IN  IF action = "null" THEN unchanged
              ELSE IF ~HasEntry(active, char)
              THEN \* actionState is undefined: reading actionState.state throws
                   [active |-> active, calls |-> << >>, threw |-> TRUE,
                    accepted |-> FALSE]
              ELSE IF ~keydownConsidered(EntryOf(active, char)) THEN unchanged
              ELSE
                LET params == getParams(action, char, e, pOut)
                    validated == KeyboardControlParams[action].validation
                    calls == IF validated /\ ~params.threw
                             THEN params.calls \o
                                  << Call("validation", char, action, e, params.value, vOut) >>
                             ELSE params.calls
                    threw == params.threw \/ (validated /\ vOut = "throw")
                    execute == validationPasses(validated, vOut)
                IN  [active |-> IF ~threw /\ execute
                                THEN AssignEntry(active, char, PRESSED, action, e)
                                ELSE active,
                     calls |-> calls,
                     threw |-> threw,
                     accepted |-> ~threw /\ execute]

\* (mutant) the released key keeps its bound action
keyupEntry_KeepsAction(active, char, e) ==
    AssignEntry(active, char, NOT_PRESSED, SnapshotOf(active, char), e)

\* the entry handleKeyup stores for the released key
keyupEntry(active, char, e) == AssignEntry(active, char, NOT_PRESSED, "null", e)

\* `action.done && typeof action.done === 'function'` of handleKeyup
keyupCallsDone(active, char, action) == KeyboardControlParams[action].done

\* handleKeyup(e)
handleKeyupResult(definitions, active, mappingFn, e, dOut) ==
    LET char == ApplyKeyMappingFn(mappingFn, e)
    IN  IF getActionThrows(definitions)
        THEN [active |-> active, calls |-> << >>, threw |-> TRUE]
        ELSE
          LET action == getAction(definitions, char)
          IN  IF action = "null"
              THEN [active |-> active, calls |-> << >>, threw |-> FALSE]
              ELSE IF keyupCallsDone(active, char, action)
              THEN [active |-> keyupEntry(active, char, e),
                    calls |-> << Call("done", char, action, e, "-", dOut) >>,
                    threw |-> dOut = "throw"]
              ELSE [active |-> keyupEntry(active, char, e),
                    calls |-> << >>, threw |-> FALSE]

\* (mutant) only a declared key that has no entry yet gets a fresh one
RECURSIVE resetDeclaredKeys_OnlyNew(_, _, _)
resetDeclaredKeys_OnlyNew(keys, i, active) ==
    IF i > Len(keys) THEN active
    ELSE resetDeclaredKeys_OnlyNew(keys, i + 1,
            IF HasEntry(active, keys[i]) THEN active
            ELSE AssignEntry(active, keys[i], NOT_PRESSED, "null", NullEvent))

\* the forEach of setKeyboardControls: every declared key gets a fresh entry
RECURSIVE resetDeclaredKeys(_, _, _)
resetDeclaredKeys(keys, i, active) ==
    IF i > Len(keys) THEN active
    ELSE resetDeclaredKeys(keys, i + 1,
                           AssignEntry(active, keys[i], NOT_PRESSED, "null", NullEvent))

\* (mutant) the default mapping function whatever the caller gives
chooseKeyMappingFn_AlwaysDefault(mappingArg) == "default"

\* keyMappingFn || this.defaultKeyMappingFn
chooseKeyMappingFn(mappingArg) ==
    IF mappingArg = "undefined" THEN "default" ELSE "custom"

\* registerEvents(outsideOfAngularZone): both branches run registerToEvents
registerEvents(registered, outsideOfAngularZone) ==
    IF outsideOfAngularZone
    THEN [keydown |-> 1, keyup |-> 1, tick |-> registered.tick + 1]
    ELSE [keydown |-> 1, keyup |-> 1, tick |-> registered.tick + 1]

\* (mutant) the tick handler stays attached to clock.onTick
unregisterEvents_KeepsTick(registered) ==
    [keydown |-> 0, keyup |-> 0, tick |-> registered.tick]

\* unregisterEvents()
unregisterEvents(registered) ==
    [keydown |-> 0, keyup |-> 0,
     tick |-> IF registered.tick > 0 THEN registered.tick - 1 ELSE 0]

-----------------------------------------------------------------------------
(* History bookkeeping (observation only; the service does not read it) *)

\* the record of one call: the method or handler, its argument (the definitions
\* installed, or the canonical key of the event), the keyMappingFn argument of
\* setKeyboardControls, the event, whether definitions were installed and the
\* state of every key before the call, the callbacks invoked in order, and
\* whether it threw
Op(op, arg, mapper, event, calls, threw) ==
    [op |-> op, arg |-> arg, mapper |-> mapper, event |-> event,
     installed |-> currentDefinitions # "null",
     before |-> [k \in Keys |-> StateOf(activeDefinitions, k)],
     calls |-> calls, threw |-> threw]

\* the calls of `calls` that invoke an action (callback or built-in) for `key`
ActionCalls(calls, key) ==
    {i \in 1..Len(calls) : calls[i].fn \in {"action", "builtin"} /\ calls[i].key = key}

CallsOf(calls, fn, key) ==
    {i \in 1..Len(calls) : calls[i].fn = fn /\ calls[i].key = key}

\* the action callback of `key` returned the literal false
ReturnedFalse(calls, key) ==
    \E i \in 1..Len(calls) :
        calls[i].fn = "action" /\ calls[i].key = key /\ calls[i].result = "false"

Declares(definitions, key) ==
    definitions # "null" /\ key \in SeqRange(ObjectKeys(definitions))

\* armed: reset by the install of a set that declares keys, set by an accepted
\* key-down
ArmedAfterInstall(definitions) ==
    IF history = "armed" /\ ObjectKeys(definitions) # << >>
    THEN [k \in Keys |-> FALSE] ELSE armed

ArmedAfterKeydown(char, accepted) ==
    IF history = "armed" /\ accepted THEN [armed EXCEPT ![char] = TRUE] ELSE armed

(* cancelHist of a key: "none" until its action returns false, then          *)
(* "cancelled"; a key-up makes it "released" and an accepted key-down after  *)
(* that "none" again.  An install of a set declaring the key while           *)
(* "cancelled" makes it "reinstalled", and an accepted key-down after that   *)
(* "rearmedByInstall" (accepted again with no key-up since the cancel); a    *)
(* key-up then makes it "rearmedReleased" and an accepted key-down "none".   *)
CancelAfterInstall(definitions) ==
    IF history # "cancel" THEN cancelHist
    ELSE [k \in Keys |->
            IF Declares(definitions, k) /\ cancelHist[k] = "cancelled"
            THEN "reinstalled" ELSE cancelHist[k]]

CancelAfterKeydown(char, accepted) ==
    IF history # "cancel" \/ ~accepted THEN cancelHist
    ELSE IF cancelHist[char] \in {"released", "rearmedReleased"}
    THEN [cancelHist EXCEPT ![char] = "none"]
    ELSE IF cancelHist[char] = "reinstalled"
    THEN [cancelHist EXCEPT ![char] = "rearmedByInstall"]
    ELSE cancelHist

CancelAfterKeyup(char) ==
    IF history # "cancel" THEN cancelHist
    ELSE IF cancelHist[char] \in {"cancelled", "reinstalled"}
    THEN [cancelHist EXCEPT ![char] = "released"]
    ELSE IF cancelHist[char] = "rearmedByInstall"
    THEN [cancelHist EXCEPT ![char] = "rearmedReleased"]
    ELSE cancelHist

CancelAfterTick(calls) ==
    IF history # "cancel" THEN cancelHist
    ELSE [k \in Keys |-> IF ReturnedFalse(calls, k) THEN "cancelled" ELSE cancelHist[k]]

-----------------------------------------------------------------------------
(* Callback outcomes that matter: a callback that is not declared is given   *)
(* one fixed outcome, so that equal calls are not enumerated twice.          *)

ParamsOutcomesOf(binding) ==
    IF binding # "null" /\ KeyboardControlParams[binding].params = "function"
    THEN ParamsOutcomes ELSE {"p1"}

ValidationOutcomesOf(binding) ==
    IF binding # "null" /\ KeyboardControlParams[binding].validation
    THEN ValidationOutcomes ELSE {"true"}

DoneOutcomesOf(binding) ==
    IF binding # "null" /\ KeyboardControlParams[binding].done
    THEN DoneOutcomes ELSE {"undefined"}

ActionOutcomesOf(binding) ==
    IF binding # "null" THEN ActionOutcomes ELSE {"undefined"}

DeclaredFor(definitions, char) ==
    IF definitions = "null" THEN "null" ELSE getAction(definitions, char)

\* the binding whose callbacks a key-down for `char` may call: none when the
\* key is not declared, has no entry or is IGNORED
ConsideredFor(definitions, active, char) ==
    IF HasEntry(active, char) /\ keydownConsidered(EntryOf(active, char))
    THEN DeclaredFor(definitions, char) ELSE "null"

\* the binding executeAction runs for `key` in a tick: none when no definitions
\* are installed or the key is not PRESSED
ExecutedFor(definitions, active, key) ==
    IF definitions # "null" /\ StateOf(active, key) = PRESSED
    THEN SnapshotOf(active, key) ELSE "null"

\* the arguments of setKeyboardControls that are read: keyMappingFn when
\* definitions are given, outsideOfAngularZone when registerEvents is called
MappingArgsOf(definitions) ==
    IF definitions = "null" THEN {"undefined"} ELSE {"undefined", "custom"}

ZoneArgsOf(installed, definitions) ==
    IF definitions # "null" /\ installed = "null" THEN BOOLEAN ELSE {FALSE}

-----------------------------------------------------------------------------
(* The service *)

InitService ==
    /\ currentDefinitions = "null"
    /\ activeDefinitions = << >>
    /\ keyMappingFn = "default"
    /\ listeners = [keydown |-> 0, keyup |-> 0, tick |-> 0]
    /\ lastOp = Op("init", "", "-", NullEvent, << >>, FALSE)
    /\ armed = [k \in Keys |-> FALSE]
    /\ cancelHist = [k \in Keys |-> "none"]
    /\ owedDone = [k \in Keys |-> 0]

Init == InitService /\ history = "none"

\* removeKeyboardControls()
removeKeyboardControls ==
    /\ listeners' = unregisterEvents(listeners)
    /\ currentDefinitions' = "null"
    /\ lastOp' = Op("removeKeyboardControls", "", "-", NullEvent, << >>, FALSE)
    /\ UNCHANGED <<activeDefinitions, keyMappingFn, history, armed, cancelHist, owedDone>>

\* setKeyboardControls(definitions, keyMappingFn, outsideOfAngularZone)
setKeyboardControls ==
    \E definitions \in DefinitionNames \cup {"null"} :
      \E mappingArg \in MappingArgsOf(definitions),
         outsideOfAngularZone \in ZoneArgsOf(currentDefinitions, definitions) :
        IF definitions = "null"
        THEN /\ listeners' = unregisterEvents(listeners)
             /\ currentDefinitions' = "null"
             /\ lastOp' = Op("setKeyboardControls", "null", mappingArg, NullEvent, << >>, FALSE)
             /\ UNCHANGED <<activeDefinitions, keyMappingFn, history, armed,
                            cancelHist, owedDone>>
        ELSE /\ listeners' = IF currentDefinitions = "null"
                             THEN registerEvents(listeners, outsideOfAngularZone)
                             ELSE listeners
             /\ currentDefinitions' = definitions
             /\ keyMappingFn' = chooseKeyMappingFn(mappingArg)
             /\ activeDefinitions' =
                    resetDeclaredKeys(ObjectKeys(definitions), 1, activeDefinitions)
             /\ lastOp' = Op("setKeyboardControls", definitions, mappingArg, NullEvent,
                             << >>, FALSE)
             /\ armed' = ArmedAfterInstall(definitions)
             /\ cancelHist' = CancelAfterInstall(definitions)
             /\ UNCHANGED <<history, owedDone>>

\* handleKeydown(e), with what the params function and validation do if called
handleKeydown ==
    \E e \in KeyboardEvents("keydown") :
      LET char == ApplyKeyMappingFn(keyMappingFn, e)
          declared == ConsideredFor(currentDefinitions, activeDefinitions, char)
      IN
      \E pOut \in ParamsOutcomesOf(declared), vOut \in ValidationOutcomesOf(declared) :
        LET r == handleKeydownResult(currentDefinitions, activeDefinitions,
                                     keyMappingFn, e, pOut, vOut)
            fresh == /\ history = "count"
                     /\ r.accepted
                     /\ StateOf(activeDefinitions, char) = NOT_PRESSED
        IN  /\ fresh => owedDone[char] < MaxOwed
            /\ activeDefinitions' = r.active
            /\ lastOp' = Op("handleKeydown", char, "-", e, r.calls, r.threw)
            /\ armed' = ArmedAfterKeydown(char, r.accepted)
            /\ cancelHist' = CancelAfterKeydown(char, r.accepted)
            /\ owedDone' = IF fresh THEN [owedDone EXCEPT ![char] = @ + 1] ELSE owedDone
            /\ UNCHANGED <<currentDefinitions, keyMappingFn, listeners, history>>

\* handleKeyup(e), with what done does if called
handleKeyup ==
    \E e \in KeyboardEvents("keyup") :
      LET char == ApplyKeyMappingFn(keyMappingFn, e)
          declared == DeclaredFor(currentDefinitions, char)
      IN
      \E dOut \in DoneOutcomesOf(declared) :
        LET r == handleKeyupResult(currentDefinitions, activeDefinitions,
                                   keyMappingFn, e, dOut)
            dones == IF history = "count"
                     THEN Cardinality(CallsOf(r.calls, "done", char)) ELSE 0
        IN  /\ owedDone[char] - dones >= 0 - MaxOwed
            /\ activeDefinitions' = r.active
            /\ lastOp' = Op("handleKeyup", char, "-", e, r.calls, r.threw)
            /\ cancelHist' = CancelAfterKeyup(char)
            /\ owedDone' = [owedDone EXCEPT ![char] = @ - dones]
            /\ UNCHANGED <<currentDefinitions, keyMappingFn, listeners, history, armed>>

\* handleTick(), with what each key's params function and action do if called
\* ("a" is declared by no definitions and has no entry, so nothing of it is called)
handleTick ==
    \E pA \in ParamsOutcomesOf(ExecutedFor(currentDefinitions, activeDefinitions, "A")),
       pB \in ParamsOutcomesOf(ExecutedFor(currentDefinitions, activeDefinitions, "B")),
       aA \in ActionOutcomesOf(ExecutedFor(currentDefinitions, activeDefinitions, "A")),
       aB \in ActionOutcomesOf(ExecutedFor(currentDefinitions, activeDefinitions, "B")) :
        LET pOut == [k \in Keys |-> IF k = "A" THEN pA ELSE IF k = "B" THEN pB ELSE "p1"]
            aOut == [k \in Keys |->
                        IF k = "A" THEN aA ELSE IF k = "B" THEN aB ELSE "undefined"]
            r == handleTickResult(currentDefinitions, activeDefinitions, pOut, aOut)
        IN  /\ activeDefinitions' = r.active
            /\ lastOp' = Op("handleTick", "", "-", NullEvent, r.calls, r.threw)
            /\ cancelHist' = CancelAfterTick(r.calls)
            /\ UNCHANGED <<currentDefinitions, keyMappingFn, listeners, history,
                           armed, owedDone>>

Next ==
    \/ setKeyboardControls
    \/ removeKeyboardControls
    \/ handleKeydown
    \/ handleKeyup
    \/ handleTick

Spec == Init /\ [][Next]_vars

\* the same service, recording one of the history variables
InitArmed == InitService /\ history = "armed"
SpecArmed == InitArmed /\ [][Next]_vars

InitCancel == InitService /\ history = "cancel"
SpecCancel == InitCancel /\ [][Next]_vars

InitCount == InitService /\ history = "count"
SpecCount == InitCount /\ [][Next]_vars

-----------------------------------------------------------------------------
(* Vocabulary of the properties *)

KeydownStep == lastOp'.op = "handleKeydown"
KeyupStep == lastOp'.op = "handleKeyup"
TickStep == lastOp'.op = "handleTick"

\* the canonical key of the event the step delivered
StepChar == ApplyKeyMappingFn(keyMappingFn, lastOp'.event)

\* the binding resolves to something executeAction can invoke
Resolvable(binding) ==
    \/ ~KeyboardControlParams[binding].action.isNumber
    \/ KeyboardControlParams[binding].action.id \in PREDEFINED_KEYBOARD_ACTIONS

ResultsOf(calls, fn) == {calls[i].result : i \in {j \in 1..Len(calls) : calls[j].fn = fn}}

\* a tick invokes an action only for a key that is PRESSED with a bound action
TickInvokesOnlyPressed ==
    TickStep =>
        \A k \in Keys :
            ActionCalls(lastOp'.calls, k) # {} =>
                /\ StateOf(activeDefinitions, k) = PRESSED
                /\ SnapshotOf(activeDefinitions, k) # "null"

\* what one tick does for key k when k is PRESSED with snapshot b and event ev:
\* params resolved once and anew, then the action invoked once with them
InvokedOnce(calls, k, b, ev) ==
    LET def == KeyboardControlParams[b]
        acts == ActionCalls(calls, k)
        pars == CallsOf(calls, "params", k)
    IN  /\ Cardinality(acts) = IF Resolvable(b) THEN 1 ELSE 0
        /\ Cardinality(pars) = IF def.params = "function" THEN 1 ELSE 0
        /\ \A i \in pars : calls[i].binding = b /\ calls[i].event = ev
        /\ \A i \in acts :
              /\ calls[i].binding = b
              /\ calls[i].event = ev
              /\ calls[i].fn = IF def.action.isNumber THEN "builtin" ELSE "action"
              /\ IF def.params = "function"
                 THEN i - 1 \in pars /\ calls[i].params = calls[i - 1].result
                 ELSE calls[i].params = IF def.params = "static" THEN "static" ELSE "{}"

-----------------------------------------------------------------------------
(* C1..C10 *)

\* C1: after setKeyboardControls installs a set that declares keys, no tick
\* invokes an action for any key (declared by the new set or not) until a
\* key-down for that key has been accepted under the new set.
C1_NoActionBeforeAcceptedKeydown ==
    lastOp.op = "handleTick" =>
        \A k \in Keys : ActionCalls(lastOp.calls, k) # {} => armed[k]

\* C2 (as claimed): an action callback returning false moves the key from
\* PRESSED to IGNORED, any other outcome leaves it PRESSED, and after a false
\* the key's action is not invoked by any tick until a key-up for the key has
\* been followed by an accepted key-down.
C2_CancelTransition ==
    TickStep =>
        \A i \in 1..Len(lastOp'.calls) :
            LET c == lastOp'.calls[i]
            IN  c.fn = "action" =>
                    /\ StateOf(activeDefinitions, c.key) = PRESSED
                    /\ StateOf(activeDefinitions', c.key) =
                           IF c.result = "false" THEN IGNORED ELSE PRESSED
                    /\ c.result # "false" =>
                           /\ SnapshotOf(activeDefinitions', c.key) = c.binding
                           /\ EventOf(activeDefinitions', c.key) = c.event

C2_Original ==
    [][ /\ C2_CancelTransition
        /\ TickStep =>
              \A k \in Keys :
                  ActionCalls(lastOp'.calls, k) # {} => cancelHist[k] = "none"
      ]_vars

\* C2 (amended): as claimed, except that the key is rearmed by a key-up for it
\* or by an install of a set that declares it: after a false the key's action
\* is not invoked by any tick until a key-up for the key, or such an install,
\* has been followed by an accepted key-down.  Key-downs that arrive while the
\* key is IGNORED are dropped.
C2_Amended ==
    [][ /\ C2_CancelTransition
        /\ TickStep =>
              \A k \in Keys :
                  ActionCalls(lastOp'.calls, k) # {} =>
                      cancelHist[k] \in {"none", "rearmedByInstall", "rearmedReleased"}
        /\ (KeydownStep /\ StateOf(activeDefinitions, StepChar) = IGNORED) =>
              /\ activeDefinitions' = activeDefinitions
              /\ lastOp'.calls = << >>
      ]_vars

\* a key-down arrived for a key whose action had returned false, and the key
\* is still IGNORED
C2_Witness ==
    /\ history = "cancel"
    /\ lastOp.op = "handleKeydown"
    /\ lastOp.arg = "A"
    /\ lastOp.before["A"] = IGNORED
    /\ cancelHist["A"] = "cancelled"
    /\ StateOf(activeDefinitions, "A") = IGNORED

\* C3: a key-up for a declared key that is IGNORED returns it to NOT_PRESSED
\* and does not invoke done.
C3_NoDoneAfterCancel ==
    [][ (/\ KeyupStep
         /\ Declares(currentDefinitions, StepChar)
         /\ StateOf(activeDefinitions, StepChar) = IGNORED) =>
            /\ StateOf(activeDefinitions', StepChar) = NOT_PRESSED
            /\ CallsOf(lastOp'.calls, "done", StepChar) = {}
      ]_vars

\* C4: for every key, the number of done invocations never exceeds the number
\* of accepted key-downs (NOT_PRESSED to PRESSED transitions).
C4_DoneOnlyForAcceptedPress ==
    \A k \in Keys : owedDone[k] >= 0

\* C5: a key-up for a declared key that is PRESSED invokes the declared done
\* exactly once (not at all when none is declared) with the key-up event, and
\* leaves the key NOT_PRESSED with no bound action; ticks invoke actions of
\* PRESSED keys only, so not of this key.
C5_KeyupWhilePressed ==
    [][ /\ (/\ KeyupStep
            /\ Declares(currentDefinitions, StepChar)
            /\ StateOf(activeDefinitions, StepChar) = PRESSED) =>
               LET binding == getAction(currentDefinitions, StepChar)
                   calls == lastOp'.calls
               IN  /\ Len(calls) = IF KeyboardControlParams[binding].done THEN 1 ELSE 0
                   /\ \A i \in 1..Len(calls) :
                         /\ calls[i].fn = "done"
                         /\ calls[i].key = StepChar
                         /\ calls[i].binding = binding
                         /\ calls[i].event = lastOp'.event
                         /\ calls[i].event.type = "keyup"
                   /\ StateOf(activeDefinitions', StepChar) = NOT_PRESSED
                   /\ SnapshotOf(activeDefinitions', StepChar) = "null"
        /\ TickInvokesOnlyPressed
      ]_vars

\* a PRESSED key was released and its done was called
C5_Witness ==
    /\ lastOp.op = "handleKeyup"
    /\ lastOp.before[lastOp.arg] = PRESSED
    /\ Declares(currentDefinitions, lastOp.arg)
    /\ Len(lastOp.calls) = 1
    /\ StateOf(activeDefinitions, lastOp.arg) = NOT_PRESSED

\* C6: with definitions installed and no callback throwing, a tick invokes the
\* action of every PRESSED key exactly once (nothing when its built-in id does
\* not resolve), with the snapshotted key-down event and with params resolved
\* in this tick by one call of the params function right before the action;
\* for a key that is not PRESSED it calls nothing.
C6_TickInvokesEachPressedOnce ==
    [][ (TickStep /\ currentDefinitions # "null" /\ ~lastOp'.threw) =>
            \A k \in Keys :
                IF StateOf(activeDefinitions, k) = PRESSED
                THEN /\ SnapshotOf(activeDefinitions, k) # "null"
                     /\ EventOf(activeDefinitions, k).type = "keydown"
                     /\ InvokedOnce(lastOp'.calls, k, SnapshotOf(activeDefinitions, k),
                                    EventOf(activeDefinitions, k))
                ELSE \A i \in 1..Len(lastOp'.calls) : lastOp'.calls[i].key # k
      ]_vars

\* a tick ran the actions of two PRESSED keys, one with a params function,
\* while a third state (neither) was skipped
C6_Witness ==
    /\ lastOp.op = "handleTick"
    /\ ~lastOp.threw
    /\ currentDefinitions # "null"
    /\ lastOp.before["A"] = PRESSED
    /\ lastOp.before["B"] = PRESSED
    /\ Len(lastOp.calls) = 3

\* C7 (as claimed): a key-down for a declared key that is NOT_PRESSED makes it
\* PRESSED, with the declared binding and the event as snapshot, if and only
\* if no validation is declared or validation returns true; otherwise the key
\* stays NOT_PRESSED with no snapshot, and ticks invoke no action for it.
C7_Original ==
    [][ /\ (/\ KeydownStep
            /\ Declares(currentDefinitions, StepChar)
            /\ StateOf(activeDefinitions, StepChar) = NOT_PRESSED) =>
               LET binding == getAction(currentDefinitions, StepChar)
                   pass == \/ ~KeyboardControlParams[binding].validation
                           \/ "true" \in ResultsOf(lastOp'.calls, "validation")
               IN  IF pass
                   THEN /\ StateOf(activeDefinitions', StepChar) = PRESSED
                        /\ SnapshotOf(activeDefinitions', StepChar) = binding
                        /\ EventOf(activeDefinitions', StepChar) = lastOp'.event
                   ELSE activeDefinitions' = activeDefinitions
        /\ TickInvokesOnlyPressed
      ]_vars

\* C7 (amended): as claimed, provided resolving the binding's params did not
\* throw: the key becomes PRESSED if and only if the params were resolved and
\* (no validation is declared or validation returns true).
C7_Amended ==
    [][ /\ (/\ KeydownStep
            /\ Declares(currentDefinitions, StepChar)
            /\ StateOf(activeDefinitions, StepChar) = NOT_PRESSED) =>
               LET binding == getAction(currentDefinitions, StepChar)
                   pass == /\ "throw" \notin ResultsOf(lastOp'.calls, "params")
                           /\ \/ ~KeyboardControlParams[binding].validation
                              \/ "true" \in ResultsOf(lastOp'.calls, "validation")
               IN  IF pass
                   THEN /\ StateOf(activeDefinitions', StepChar) = PRESSED
                        /\ SnapshotOf(activeDefinitions', StepChar) = binding
                        /\ EventOf(activeDefinitions', StepChar) = lastOp'.event
                   ELSE activeDefinitions' = activeDefinitions
        /\ TickInvokesOnlyPressed
      ]_vars

\* validation rejected the key-down of a NOT_PRESSED key
C7_Witness ==
    /\ lastOp.op = "handleKeydown"
    /\ lastOp.before[lastOp.arg] = NOT_PRESSED
    /\ "false" \in ResultsOf(lastOp.calls, "validation")
    /\ StateOf(activeDefinitions, lastOp.arg) = NOT_PRESSED

\* C8: while no definitions are installed, handleKeydown, handleKeyup and
\* handleTick do not throw, invoke no callback and change no state.
C8_NoOpWhenNotInstalled ==
    [][ (currentDefinitions = "null" /\ (KeydownStep \/ KeyupStep \/ TickStep)) =>
            /\ ~lastOp'.threw
            /\ lastOp'.calls = << >>
            /\ UNCHANGED <<currentDefinitions, activeDefinitions, keyMappingFn, listeners>>
      ]_vars

\* C9: when the action or params function of one key throws during a tick,
\* every other key that was PRESSED still has its action invoked exactly once
\* in that tick, and no other key's entry changes except by its own action
\* returning false.
C9_TickIsolation ==
    [][ (TickStep /\ currentDefinitions # "null" /\ lastOp'.threw) =>
            LET calls == lastOp'.calls
                thrower == calls[Len(calls)].key
            IN  \A k \in Keys \ {thrower} :
                    /\ StateOf(activeDefinitions, k) = PRESSED =>
                          InvokedOnce(calls, k, SnapshotOf(activeDefinitions, k),
                                      EventOf(activeDefinitions, k))
                    /\ ~ReturnedFalse(calls, k) =>
                          /\ StateOf(activeDefinitions', k) = StateOf(activeDefinitions, k)
                          /\ SnapshotOf(activeDefinitions', k) = SnapshotOf(activeDefinitions, k)
      ]_vars

\* C10: with definitions installed, a key-down or key-up whose canonical key
\* the definitions do not declare creates no entry, changes no entry, invokes
\* no callback and does not throw.
C10_UnboundKeyDropped ==
    [][ (/\ KeydownStep \/ KeyupStep
         /\ currentDefinitions # "null"
         /\ ~Declares(currentDefinitions, StepChar)) =>
            /\ activeDefinitions' = activeDefinitions
            /\ lastOp'.calls = << >>
            /\ ~lastOp'.threw
            /\ UNCHANGED <<currentDefinitions, keyMappingFn, listeners>>
      ]_vars

\* an event for a key the installed definitions do not declare was delivered
\* while another set's entry for that key was still PRESSED
C10_Witness ==
    /\ lastOp.op \in {"handleKeydown", "handleKeyup"}
    /\ currentDefinitions # "null"
    /\ ~Declares(currentDefinitions, lastOp.arg)
    /\ lastOp.before[lastOp.arg] = PRESSED
    /\ StateOf(activeDefinitions, lastOp.arg) = PRESSED

-----------------------------------------------------------------------------
(* C11..C20 *)

\* the handlers attached to the three sources, once each / to none
Attached == [keydown |-> 1, keyup |-> 1, tick |-> 1]
Detached == [keydown |-> 0, keyup |-> 0, tick |-> 0]

\* the service is subscribed exactly when definitions are installed
SubscriptionsMatch(definitions, registered) ==
    registered = IF definitions # "null" THEN Attached ELSE Detached

InstallStep == lastOp'.op = "setKeyboardControls" /\ lastOp'.arg # "null"
RemoveStep == lastOp'.op = "removeKeyboardControls"

\* C11: before and after every call, each of the three sources holds one
\* subscription if definitions are installed and none otherwise; a
\* setKeyboardControls while installed leaves the subscriptions as they are,
\* and a removeKeyboardControls with nothing installed changes nothing.
C11_SubscribedIffInstalled ==
    [][ /\ SubscriptionsMatch(currentDefinitions, listeners)
        /\ SubscriptionsMatch(currentDefinitions', listeners')
        /\ (InstallStep /\ currentDefinitions # "null") => listeners' = listeners
        /\ (RemoveStep /\ currentDefinitions = "null") =>
              UNCHANGED <<currentDefinitions, activeDefinitions, keyMappingFn, listeners>>
      ]_vars

\* removeKeyboardControls was called with nothing installed, after an earlier
\* install and remove
C11_Witness ==
    /\ lastOp.op = "removeKeyboardControls"
    /\ ~lastOp.installed
    /\ activeDefinitions # << >>
    /\ currentDefinitions = "null"
    /\ listeners = Detached

\* C12: in a tick in which no callback throws, a key's entry changes only if
\* its own action callback returned false, and then to IGNORED; every other
\* key keeps its state, bound action and event, and every key that was PRESSED
\* has its action invoked once in that tick, also when another key cancels
\* (so a key that did not cancel is still PRESSED for the later ticks).
C12_CancellationIsLocal ==
    [][ (TickStep /\ currentDefinitions # "null" /\ ~lastOp'.threw) =>
            \A k \in Keys :
                /\ StateOf(activeDefinitions, k) = PRESSED =>
                      InvokedOnce(lastOp'.calls, k, SnapshotOf(activeDefinitions, k),
                                  EventOf(activeDefinitions, k))
                /\ IF ReturnedFalse(lastOp'.calls, k)
                   THEN StateOf(activeDefinitions', k) = IGNORED
                   ELSE /\ StateOf(activeDefinitions', k) = StateOf(activeDefinitions, k)
                        /\ SnapshotOf(activeDefinitions', k) = SnapshotOf(activeDefinitions, k)
                        /\ EventOf(activeDefinitions', k) = EventOf(activeDefinitions, k)
      ]_vars

\* a tick in which the action of "A", visited first, returned false and the
\* action of "B" was still invoked and left "B" PRESSED
C12_Witness ==
    /\ lastOp.op = "handleTick"
    /\ ~lastOp.threw
    /\ lastOp.before["A"] = PRESSED
    /\ lastOp.before["B"] = PRESSED
    /\ activeKeysOf(activeDefinitions) = <<"A", "B">>
    /\ ReturnedFalse(lastOp.calls, "A")
    /\ ActionCalls(lastOp.calls, "B") # {}
    /\ StateOf(activeDefinitions, "A") = IGNORED
    /\ StateOf(activeDefinitions, "B") = PRESSED

\* the binding's action is a numeric KeyboardAction id
IsBuiltin(binding) == binding # "null" /\ KeyboardControlParams[binding].action.isNumber

EmptyDefinitions(definitions) ==
    definitions = "null" \/ ObjectKeys(definitions) = << >>

\* C14: setKeyboardControls with empty definitions (none given, or a set that
\* declares no key) ends as removeKeyboardControls does from the same state:
\* detached from the three sources and with no definitions installed.
C14_EmptyInstallIsRemove ==
    [][ (lastOp'.op = "setKeyboardControls" /\ EmptyDefinitions(lastOp'.arg)) =>
            /\ currentDefinitions' = "null"
            /\ listeners' = unregisterEvents(listeners)
            /\ listeners' = Detached
      ]_vars

\* the entry of `key` is the same before and after the step
EntryUnchanged(key) ==
    /\ StateOf(activeDefinitions', key) = StateOf(activeDefinitions, key)
    /\ SnapshotOf(activeDefinitions', key) = SnapshotOf(activeDefinitions, key)
    /\ EventOf(activeDefinitions', key) = EventOf(activeDefinitions, key)

\* C15: a setKeyboardControls that installs definitions makes the key mapping
\* function the one it is given, or the default one when it is given none,
\* whatever was in effect before; no other call changes it; and every key-down
\* and key-up is handled for the key this function gives for the event: only
\* that key's entry may change, callbacks are called for that key only, and a
\* key-up stores the event in that key's entry when the key is declared.
C15_MapperOfLastInstall ==
    [][ /\ InstallStep =>
              keyMappingFn' = IF lastOp'.mapper = "custom" THEN "custom" ELSE "default"
        /\ ~InstallStep => keyMappingFn' = keyMappingFn
        /\ ((KeydownStep \/ KeyupStep) /\ currentDefinitions # "null") =>
              LET e == lastOp'.event
                  char == IF keyMappingFn = "custom"
                          THEN customKeyMappingFn(e) ELSE defaultKeyMappingFn(e)
              IN  /\ \A k \in Keys \ {char} : EntryUnchanged(k)
                  /\ \A i \in 1..Len(lastOp'.calls) : lastOp'.calls[i].key = char
                  /\ (KeyupStep /\ Declares(currentDefinitions, char)) =>
                        /\ StateOf(activeDefinitions', char) = NOT_PRESSED
                        /\ EventOf(activeDefinitions', char) = e
      ]_vars

\* a set was installed with no key mapping function while the entry of "A"
\* still holds a key-down of key code 97, which only the caller's function
\* maps to "A": the default function is in effect again
C15_Witness ==
    /\ lastOp.op = "setKeyboardControls"
    /\ lastOp.arg # "null"
    /\ lastOp.mapper = "undefined"
    /\ keyMappingFn = "default"
    /\ StateOf(activeDefinitions, "A") = PRESSED
    /\ EventOf(activeDefinitions, "A").keyCode = 97

\* C16: the keys that have an entry in _activeDefinitions are exactly the keys
\* the installed definitions declare, one entry each, and there is no entry
\* when no definitions are installed.
C16_EntriesAreDeclaredKeys ==
    /\ SeqRange(activeKeysOf(activeDefinitions)) =
          IF currentDefinitions = "null" THEN {}
          ELSE SeqRange(ObjectKeys(currentDefinitions))
    /\ \A i, j \in 1..Len(activeDefinitions) :
          activeDefinitions[i].key = activeDefinitions[j].key => i = j

\* C17: in every entry the bound action and the event are both present when
\* the state is PRESSED or IGNORED and both absent when it is NOT_PRESSED.
C17_SnapshotIffPressedOrIgnored ==
    \A i \in 1..Len(activeDefinitions) :
        LET entry == activeDefinitions[i]
            held == entry.state \in {PRESSED, IGNORED}
        IN  /\ entry.action # "null" <=> held
            /\ entry.keyboardEvent # NullEvent <=> held

\* the position of `key` among the keys the definitions declare
DeclaredIndex(definitions, key) ==
    CHOOSE i \in 1..Len(ObjectKeys(definitions)) : ObjectKeys(definitions)[i] = key

\* C18: in one tick the actions of the keys the installed definitions declare
\* are invoked in the order in which these definitions declare the keys.
C18_TickInDeclaredOrder ==
    [][ (TickStep /\ currentDefinitions # "null") =>
            LET calls == lastOp'.calls
            IN  \A i, j \in 1..Len(calls) :
                    (/\ i < j
                     /\ calls[i].fn \in {"action", "builtin"}
                     /\ calls[j].fn \in {"action", "builtin"}
                     /\ Declares(currentDefinitions, calls[i].key)
                     /\ Declares(currentDefinitions, calls[j].key)) =>
                        DeclaredIndex(currentDefinitions, calls[i].key)
                            < DeclaredIndex(currentDefinitions, calls[j].key)
      ]_vars

\* a key leaves PRESSED only by a key-up for it, by its action returning false
\* in a tick, or by an install of definitions that declare it
LeavesPressedOnlyBy(k) ==
    (StateOf(activeDefinitions, k) = PRESSED /\ StateOf(activeDefinitions', k) # PRESSED) =>
        \/ KeyupStep /\ StepChar = k /\ StateOf(activeDefinitions', k) = NOT_PRESSED
        \/ TickStep /\ ReturnedFalse(lastOp'.calls, k)
                    /\ StateOf(activeDefinitions', k) = IGNORED
        \/ InstallStep /\ Declares(lastOp'.arg, k)
                       /\ StateOf(activeDefinitions', k) = NOT_PRESSED

\* what a key-down does to a declared key that is PRESSED already: the key
\* stays PRESSED; when `pass` holds the snapshot is the declared binding with
\* the new event, otherwise the entry is as it was
RepeatedKeydown(pass) ==
    (/\ KeydownStep
     /\ Declares(currentDefinitions, StepChar)
     /\ StateOf(activeDefinitions, StepChar) = PRESSED) =>
        /\ StateOf(activeDefinitions', StepChar) = PRESSED
        /\ SnapshotOf(activeDefinitions', StepChar) = SnapshotOf(activeDefinitions, StepChar)
        /\ \A k \in Keys \ {StepChar} : EntryUnchanged(k)
        /\ IF pass
           THEN EventOf(activeDefinitions', StepChar) = lastOp'.event
           ELSE EventOf(activeDefinitions', StepChar) = EventOf(activeDefinitions, StepChar)

\* validation is not declared for the key of the step, or it returned true
ValidationAbsentOrTrue ==
    \/ ~KeyboardControlParams[getAction(currentDefinitions, StepChar)].validation
    \/ "true" \in ResultsOf(lastOp'.calls, "validation")

\* C19 (as claimed): a key-down for a key that is PRESSED already leaves it
\* PRESSED; the snapshot event becomes the new event if validation is absent
\* or returns true, and the snapshot stays as it was otherwise; a key leaves
\* PRESSED only by a key-up, by its action returning false, or by an install.
C19_Original ==
    [][ /\ RepeatedKeydown(ValidationAbsentOrTrue)
        /\ \A k \in Keys : LeavesPressedOnlyBy(k)
      ]_vars

\* C19 (amended): as claimed, except that the snapshot event becomes the new
\* event only if, in addition, resolving the binding's params did not throw;
\* when the params function throws the snapshot stays as it was.
C19_Amended ==
    [][ /\ RepeatedKeydown(/\ "throw" \notin ResultsOf(lastOp'.calls, "params")
                           /\ ValidationAbsentOrTrue)
        /\ \A k \in Keys : LeavesPressedOnlyBy(k)
      ]_vars

\* a repeated key-down of "A" was rejected by validation: "A" is still PRESSED
\* with the event of the earlier key-down
C19_Witness ==
    /\ lastOp.op = "handleKeydown"
    /\ lastOp.arg = "A"
    /\ lastOp.before["A"] = PRESSED
    /\ "false" \in ResultsOf(lastOp.calls, "validation")
    /\ StateOf(activeDefinitions, "A") = PRESSED
    /\ EventOf(activeDefinitions, "A").type = "keydown"
    /\ EventOf(activeDefinitions, "A") # lastOp.event

\* C20: every key that the installed definitions declare and that is PRESSED
\* has as its bound action the binding these definitions declare for it, and
\* whatever a tick calls for a key the installed definitions declare is called
\* for that binding.
C20_SnapshotIsCurrentBinding ==
    /\ \A k \in Keys :
          (Declares(currentDefinitions, k) /\ StateOf(activeDefinitions, k) = PRESSED) =>
              SnapshotOf(activeDefinitions, k) = getAction(currentDefinitions, k)
    /\ lastOp.op = "handleTick" =>
          \A i \in 1..Len(lastOp.calls) :
              Declares(currentDefinitions, lastOp.calls[i].key) =>
                  lastOp.calls[i].binding =
                      getAction(currentDefinitions, lastOp.calls[i].key)

\* a tick ran the binding the installed definitions declare for "A", after
\* they had replaced definitions that declare "A" with another binding (the
\* table still has the key order of the replaced definitions)
C20_Witness ==
    /\ lastOp.op = "handleTick"
    /\ currentDefinitions = "D2"
    /\ activeKeysOf(activeDefinitions) = <<"A", "B">>
    /\ lastOp.before["A"] = PRESSED
    /\ \E i \in 1..Len(lastOp.calls) :
          /\ lastOp.calls[i].fn = "action"
          /\ lastOp.calls[i].key = "A"
          /\ lastOp.calls[i].binding = "a2"

====
